---------------------------- MODULE Spec2Model ----------------------------
(***************************************************************************)
(* Model of the OceanGliders vocabulary reconcilers: nvs.py (concept       *)
(* stores), og1_sensors.py / og1_variables.py / validate.py (reconcilers   *)
(* and batch runners).                                                     *)
(*                                                                         *)
(* Representation.  A Python str is the sequence of its fragments          *)
(* (tokens): a URI "http://.../L05/current/130/" is <<"http:", "L05",      *)
(* "130", "/">>, a label "SBE37" is <<"SBE37">>.  `marker in uri` is       *)
(* containment of the token, uri[-1] is the last token, str.replace maps   *)
(* tokens.  A Python dict is a function with a set of strings as domain.   *)
(* A JSON value whose Python type the code inspects (dict / list / str)    *)
(* carries that type in a tag.                                             *)
(***************************************************************************)
EXTENDS Integers, Sequences, FiniteSets, TLC

-----------------------------------------------------------------------------
(* Bounds *)

\* number of times a reconciler is applied to the same record object
MaxCalls == 2
\* number of draft sensors in one batch file
MaxDrafts == 2
\* number of draft variables in one batch file
MaxVars == 1
\* number of concepts in a drawn collection graph (descriptor excluded)
MaxGraph == 2

-----------------------------------------------------------------------------
(* Python values *)

Str(s) == <<s>>
Uri(coll, id) == <<"http:", coll, id, "/">>
HttpsUri(coll, id) == <<"https:", coll, id, "/">>
BareUri(coll, id) == <<"http:", coll, id>>

\* `marker in s` for a str s
Contains(s, marker) == \E i \in DOMAIN s : s[i] = marker

\* JSON values tagged with their Python type
Dict(d) == [type |-> "dict", v |-> d]
List(l) == [type |-> "list", v |-> l]
Text(s) == [type |-> "str", v |-> s]

Link(uri) == ("@id" :> uri)
Label(s) == ("@value" :> Str(s))

\* d[k] = v on a dict
Put(d, k, v) == [x \in (DOMAIN d) \cup {k} |-> IF x = k THEN v ELSE d[x]]
\* dict.values()
Values(d) == {d[k] : k \in DOMAIN d}
\* a | b on dicts: the right operand wins on a shared key
Union(a, b) ==
    [k \in (DOMAIN a) \cup (DOMAIN b) |-> IF k \in DOMAIN b THEN b[k] ELSE a[k]]
EmptyDict == [k \in {} |-> <<>>]

\* results of a call: `return False`, `return <dict>`, or an exception
\* propagating out of the function
False == [kind |-> "False"]
Return(rec) == [kind |-> "return", value |-> rec]
Raise(e) == [kind |-> "raise", exc |-> e]
NoCall == [kind |-> "none"]

-----------------------------------------------------------------------------
(* nvs.py: concept stores *)

\* graph[:-1]
AllButLast(graph) == IF Len(graph) = 0 THEN <<>> ELSE SubSeq(graph, 1, Len(graph) - 1)

\* {concept['@id']: concept for concept in graph[:-1]}
concept_dict_from_collection(graph) ==
    LET concepts == AllButLast(graph)
        ids == {concepts[i]["@id"] : i \in DOMAIN concepts}
        \* a later concept with the same @id replaces an earlier one
        last(id) == CHOOSE i \in DOMAIN concepts :
                        /\ concepts[i]["@id"] = id
                        /\ \A j \in DOMAIN concepts : concepts[j]["@id"] = id => j <= i
    IN [id \in ids |-> concepts[last(id)]]

\* the trailing collection descriptor of a fetched graph
Descriptor(coll) == ("@id" :> <<"http:", coll>>) @@ ("@type" :> Str("skos:Collection"))

-----------------------------------------------------------------------------
(* Fetched collections for the sensor reconciler (fixture graphs) *)

T1 == Uri("L05", "130")
T2 == Uri("L05", "134")
T3 == Uri("L05", "999")      \* linked from L22 but not in the L05 collection
K1 == Uri("L35", "MAN0013")
K3 == Uri("L35", "MAN9999")  \* linked from L22 but not in the L35 collection
N1 == Uri("P01", "TEMPPR01") \* a link into some other collection
M1 == Uri("L22", "TOOL1")
M2 == Uri("L22", "TOOL2")
M3 == Uri("L22", "TOOL3")
M4 == Uri("L22", "TOOL4")
M5 == Uri("L22", "TOOL5")
M6 == Uri("L22", "TOOL6")
M7 == Uri("L22", "TOOL7")
M9 == Uri("L22", "TOOL9")    \* not in the L22 collection
OGS == <<"http:", "OG_SENSORS", "/">>
OtherScheme == <<"http:", "scheme", "/">>

L05Graph ==
    << ("@id" :> T1) @@ ("skos:prefLabel" :> Label("CTD")),
       ("@id" :> T2) @@ ("skos:prefLabel" :> Label("water temperature sensor")),
       Descriptor("L05") >>

L35Graph ==
    << ("@id" :> K1) @@ ("skos:prefLabel" :> Label("Sea-Bird Scientific")),
       Descriptor("L35") >>

L22Graph ==
    << \* several sensor-type links, one maker link, in the governing scheme
       ("@id" :> M1) @@ ("skos:prefLabel" :> Label("SBE37"))
         @@ ("skos:broader" :> List(<<Link(T1), Link(T2)>>))
         @@ ("skos:related" :> Dict(Link(K1)))
         @@ ("skos:inScheme" :> Dict(Link(OGS))),
       \* one type link, one maker link among others
       ("@id" :> M2) @@ ("skos:prefLabel" :> Label("SBE41"))
         @@ ("skos:broader" :> Dict(Link(T1)))
         @@ ("skos:related" :> List(<<Link(N1), Link(K1)>>))
         @@ ("skos:inScheme" :> List(<<Link(OtherScheme), Link(OGS)>>)),
       \* no broader link at all: the property is absent from the JSON-LD
       ("@id" :> M3) @@ ("skos:prefLabel" :> Label("RBRlegato"))
         @@ ("skos:related" :> Dict(Link(K1))),
       \* a type link that the L05 collection does not hold
       ("@id" :> M4) @@ ("skos:prefLabel" :> Label("AROD-FT"))
         @@ ("skos:broader" :> Dict(Link(T3)))
         @@ ("skos:related" :> Dict(Link(K1))),
       \* no type link and no maker link
       ("@id" :> M5) @@ ("skos:prefLabel" :> Label("FLBBCD"))
         @@ ("skos:broader" :> List(<<>>))
         @@ ("skos:related" :> Dict(Link(N1)))
         @@ ("skos:inScheme" :> Dict(Link(OtherScheme))),
       \* a maker link that the L35 collection does not hold
       ("@id" :> M6) @@ ("skos:prefLabel" :> Label("OCR504"))
         @@ ("skos:broader" :> Dict(Link(T2)))
         @@ ("skos:related" :> Dict(Link(K3))),
       \* three broader links, the two type links in the other order
       ("@id" :> M7) @@ ("skos:prefLabel" :> Label("GPCTD"))
         @@ ("skos:broader" :> List(<<Link(N1), Link(T2), Link(T1)>>))
         @@ ("skos:related" :> List(<<Link(K1)>>))
         @@ ("skos:inScheme" :> Dict(Link(OGS))),
       Descriptor("L22") >>

l22 == concept_dict_from_collection(L22Graph)
l05 == concept_dict_from_collection(L05Graph)
l35 == concept_dict_from_collection(L35Graph)


-----------------------------------------------------------------------------
(* og1_sensors.py / validate.py: validate_sensor *)

mandatory_keys ==
    {"long_name", "sensor_maker", "sensor_maker_vocabulary", "sensor_model",
     "sensor_model_vocabulary", "sensor_type", "sensor_type_vocabulary"}

\* `'vocabulary' in key`, over the keys that reach the final loop
HasVocabulary(key) ==
    key \in {"sensor_maker_vocabulary", "sensor_model_vocabulary", "sensor_type_vocabulary"}

\* key.replace('_vocabulary', '')
StripVocabulary(key) ==
    CASE key = "sensor_maker_vocabulary" -> "sensor_maker"
      [] key = "sensor_model_vocabulary" -> "sensor_model"
      [] key = "sensor_type_vocabulary" -> "sensor_type"
      [] OTHER -> key

\* `if type(x) is dict: x = [x]`
AsList(x) == IF x.type = "dict" THEN <<x.v>> ELSE x.v

\* in_og_scheme: some skos:inScheme link contains 'OG_SENSORS' (warning only)
InOgScheme(data) ==
    /\ "skos:inScheme" \in DOMAIN data
    /\ LET in_scheme == AsList(data["skos:inScheme"])
       IN \E i \in DOMAIN in_scheme : Contains(in_scheme[i]["@id"], "OG_SENSORS")

\* BroaderLoop with an unconditional break at the first link containing 'L05'
RECURSIVE BroaderLoopFirstMatch(_, _, _, _)
BroaderLoopFirstMatch(broader, i, sensor, vocab_dict) ==
    IF i > Len(broader) THEN Return(vocab_dict)
    ELSE LET l05_uri == broader[i]["@id"] IN
         IF Contains(l05_uri, "L05")
         THEN IF l05_uri \notin DOMAIN l05 THEN Raise("KeyError")
              ELSE Return(Put(Put(vocab_dict, "sensor_type_vocabulary", l05_uri),
                              "sensor_type", l05[l05_uri]["skos:prefLabel"]["@value"]))
         ELSE BroaderLoopFirstMatch(broader, i + 1, sensor, vocab_dict)

\* the loop over broader: every link containing 'L05' overwrites the type
\* entries of vocab_dict; the loop breaks only at a link whose URI is among
\* the values of the input sensor
RECURSIVE BroaderLoop(_, _, _, _)
BroaderLoop(broader, i, sensor, vocab_dict) ==
    IF i > Len(broader) THEN Return(vocab_dict)
    ELSE LET l05_uri == broader[i]["@id"] IN
         IF Contains(l05_uri, "L05")
         THEN IF l05_uri \notin DOMAIN l05 THEN Raise("KeyError")
              ELSE LET vd == Put(Put(vocab_dict, "sensor_type_vocabulary", l05_uri),
                                 "sensor_type", l05[l05_uri]["skos:prefLabel"]["@value"])
                   IN IF l05_uri \in Values(sensor) THEN Return(vd)
                      ELSE BroaderLoop(broader, i + 1, sensor, vd)
         ELSE BroaderLoop(broader, i + 1, sensor, vocab_dict)

\* the loop over related: the first link containing 'L35' sets the maker
\* entries and ends the loop
RECURSIVE RelatedLoop(_, _, _)
RelatedLoop(related, i, vocab_dict) ==
    IF i > Len(related) THEN Return(vocab_dict)
    ELSE LET l35_uri == related[i]["@id"] IN
         IF Contains(l35_uri, "L35")
         THEN IF l35_uri \notin DOMAIN l35 THEN Raise("KeyError")
              ELSE Return(Put(Put(vocab_dict, "sensor_maker_vocabulary", l35_uri),
                              "sensor_maker", l35[l35_uri]["skos:prefLabel"]["@value"]))
         ELSE RelatedLoop(related, i + 1, vocab_dict)

\* vocab_dict as it stands when the final loop starts, or the exception
\* raised before it
VocabDict(sensor) ==
    LET data == l22[sensor["sensor_model_vocabulary"]]
        model_name == data["skos:prefLabel"]["@value"]
        vocab_dict == [sensor_model_vocabulary |-> data["@id"],
                       sensor_model |-> model_name,
                       long_name |-> model_name]
    IN IF "skos:broader" \notin DOMAIN data THEN Raise("KeyError")
       ELSE LET afterBroader == BroaderLoop(AsList(data["skos:broader"]), 1, sensor, vocab_dict)
            IN IF afterBroader.kind = "raise" THEN afterBroader
               ELSE IF "skos:related" \notin DOMAIN data THEN Raise("KeyError")
               ELSE RelatedLoop(AsList(data["skos:related"]), 1, afterBroader.value)

\* keys at which the final loop raises: an unresolved *_vocabulary key whose
\* warning message reads sensor[key.replace('_vocabulary', '')]
RaisingKeys(sensor, vocab_dict) ==
    {key \in DOMAIN sensor :
        /\ key \notin DOMAIN vocab_dict
        /\ HasVocabulary(key)
        /\ StripVocabulary(key) \notin DOMAIN sensor}

\* the final loop run over the keys in `done`: sensor[key] = vocab_dict[key]
Corrected(sensor, vocab_dict, done) ==
    [key \in DOMAIN sensor |->
        IF key \in done /\ key \in DOMAIN vocab_dict THEN vocab_dict[key] ELSE sensor[key]]

validate_sensor(sensor) ==
    IF (DOMAIN sensor) \ mandatory_keys # {} THEN False
    ELSE IF "sensor_model_vocabulary" \notin DOMAIN sensor THEN Raise("KeyError")
    ELSE IF sensor["sensor_model_vocabulary"] \notin DOMAIN l22 THEN False
    ELSE LET vd == VocabDict(sensor) IN
         IF vd.kind = "raise" THEN vd
         ELSE IF RaisingKeys(sensor, vd.value) # {} THEN Raise("KeyError")
         ELSE Return(Corrected(sensor, vd.value, DOMAIN sensor))

\* The sensor dict is corrected in place.  When the final loop raises, the
\* keys visited before the raising one have been corrected; the dict's key
\* order decides which, so every set of non-raising keys is possible.
SensorAfter(sensor) ==
    LET r == validate_sensor(sensor) IN
    IF r.kind = "return" THEN {r.value}
    ELSE IF r.kind = "False" THEN {sensor}
    ELSE IF (DOMAIN sensor) \ mandatory_keys # {} THEN {sensor}
    ELSE IF "sensor_model_vocabulary" \notin DOMAIN sensor THEN {sensor}
    ELSE LET vd == VocabDict(sensor) IN
         IF vd.kind = "raise" THEN {sensor}
         ELSE {Corrected(sensor, vd.value, done) :
                  done \in SUBSET ((DOMAIN sensor) \ RaisingKeys(sensor, vd.value))}

-----------------------------------------------------------------------------
(* nvs.py: table_from_collection *)

\* float nan, the value pandas gives a cell whose row lacks the column; it
\* is never equal to a str and never a key of a store
NaN == <<"nan">>

\* `if type(related) is not list: related = [related]`
AsListUnlessList(x) == IF x.type = "list" THEN x.v ELSE <<x.v>>

\* the loop over related: every link containing 'P06' overwrites units_uri
RECURSIVE UnitsLoop(_, _, _)
UnitsLoop(related, i, concept_dict) ==
    IF i > Len(related) THEN concept_dict
    ELSE UnitsLoop(related, i + 1,
                   IF Contains(related[i]["@id"], "P06")
                   THEN Put(concept_dict, "units_uri", related[i]["@id"])
                   ELSE concept_dict)

\* the row built for one concept that has a definition
ConceptRow(concept) ==
    LET def == concept["skos:definition"]
        definition == IF def.type = "dict" THEN def.v["@value"] ELSE def.v
        base == [uri |-> concept["@id"], definition |-> definition]
        named == IF "skos:prefLabel" \in DOMAIN concept
                 THEN Put(base, "cf_standard_name", concept["skos:prefLabel"]["@value"])
                 ELSE base
    IN IF "skos:related" \in DOMAIN concept
       THEN UnitsLoop(AsListUnlessList(concept["skos:related"]), 1, named)
       ELSE named

\* the loop over graph[:-1]; the result is the list of rows handed to
\* pd.DataFrame, or the exception that ended the loop
RECURSIVE ConceptLoop(_, _, _)
ConceptLoop(concepts, i, concept_dicts) ==
    IF i > Len(concepts) THEN Return(concept_dicts)
    ELSE IF concepts[i].type # "dict"
         THEN ConceptLoop(concepts, i + 1, concept_dicts)
    ELSE IF "skos:definition" \notin DOMAIN concepts[i].v
         THEN Raise("KeyError")
    ELSE ConceptLoop(concepts, i + 1, Append(concept_dicts, ConceptRow(concepts[i].v)))

table_from_collection(graph) ==
    IF Len(graph) = 0 THEN Raise("IndexError")
    ELSE ConceptLoop(AllButLast(graph), 1, <<>>)

\* a DataFrame is the list of its rows; a column exists when some row has it
HasColumn(df, col) == \E i \in DOMAIN df : col \in DOMAIN df[i]
\* df[col].values
ColumnValues(df, col) ==
    {IF col \in DOMAIN df[i] THEN df[i][col] ELSE NaN : i \in DOMAIN df}
\* df.loc[df[key] == val, col].values[0]
Loc0(df, key, val, col) ==
    LET first == CHOOSE i \in DOMAIN df :
                    /\ key \in DOMAIN df[i] /\ df[i][key] = val
                    /\ \A j \in DOMAIN df :
                          (key \in DOMAIN df[j] /\ df[j][key] = val) => i <= j
    IN IF col \in DOMAIN df[first] THEN df[first][col] ELSE NaN

-----------------------------------------------------------------------------
(* Fetched collections for the variable reconciler (fixture graphs) *)

U1 == Uri("P06", "UPAA")
U2 == Uri("P06", "UUUU")
U9 == Uri("P06", "ZZZZ")     \* linked but not in the P06 collection
V1 == Uri("OG1", "TEMP")
V2 == Uri("P01", "TEMPPR01")
V3 == Uri("P02", "TEMP")
V4 == Uri("OG1", "PRES")
V9 == Uri("OG1", "NONE")     \* not in any collection
SeaWaterTemperature == <<"sea", "_", "water", "_", "temperature">>
SeaWaterPressure == <<"sea", "_", "water", "_", "pressure">>
NoSuchName == <<"no", "_", "such", "_", "name">>

OG1Graph ==
    << \* units linked from the concept itself
       ("@id" :> V1) @@ ("skos:prefLabel" :> Label("Temperature"))
         @@ ("skos:related" :> Dict(Link(U1))),
       \* units linked from the concept, the unit has no alternate label
       ("@id" :> V4) @@ ("skos:prefLabel" :> Label("Pressure"))
         @@ ("skos:related" :> List(<<Link(N1), Link(U2)>>)),
       Descriptor("OG1") >>

P01Graph ==
    << \* no related link: units come from the standard-name table
       ("@id" :> V2) @@ ("skos:prefLabel" :> Label("Temperature of the water body")),
       \* superseded by the OG1 concept of the same URI
       ("@id" :> V1) @@ ("skos:prefLabel" :> Label("Temperature (P01)")),
       Descriptor("P01") >>

P02Graph ==
    << \* a units link that the P06 collection does not hold
       ("@id" :> V3) @@ ("skos:prefLabel" :> Label("Temperature of the water column"))
         @@ ("skos:related" :> Dict(Link(U9))),
       Descriptor("P02") >>

P06Graph ==
    << ("@id" :> U1) @@ ("skos:prefLabel" :> Label("Degrees Celsius"))
         @@ ("skos:altLabel" :> Str("degC")),
       ("@id" :> U2) @@ ("skos:prefLabel" :> Label("Unknown")),
       Descriptor("P06") >>

P07Graph ==
    << Dict(("@id" :> Uri("P07", "CFSN0335"))
              @@ ("skos:definition" :> Dict(Label("temperature of sea water")))
              @@ ("skos:prefLabel" :> ("@value" :> SeaWaterTemperature))
              @@ ("skos:related" :> List(<<Link(N1), Link(U1)>>))),
       \* a standard name without units link
       Dict(("@id" :> Uri("P07", "CFSN0330"))
              @@ ("skos:definition" :> Text(Str("pressure of sea water")))
              @@ ("skos:prefLabel" :> ("@value" :> SeaWaterPressure))),
       Dict(Descriptor("P07")) >>

og1 == concept_dict_from_collection(OG1Graph)
p02 == concept_dict_from_collection(P02Graph)
p01 == concept_dict_from_collection(P01Graph)
p06 == concept_dict_from_collection(P06Graph)
og1_p01_p02 == Union(Union(p01, p02), og1)
\* the fixture P07 graph is well formed, so the projection returns its rows
df_p07 == table_from_collection(P07Graph).value

-----------------------------------------------------------------------------
(* og1_variables.py / validate.py: validate_variable *)

CoordinateNames == {"TIME", "LONGITUDE", "LATITUDE", "DEPTH"}
FixedCoordinates == Str("TIME, LONGITUDE, LATITUDE, DEPTH")
NaNf == Str("NaNf")
variable_mandatory_keys == {"standard_name", "vocabulary", "units"}

\* s.replace(old, new)
Replace(s, old, new) == [i \in DOMAIN s |-> IF s[i] = old THEN new ELSE s[i]]

\* Defaulted with coordinates assigned only when the dict has none
DefaultedKeepsCoordinates(var_name, variable) ==
    LET v1 == IF var_name \notin CoordinateNames /\ "coordinates" \notin DOMAIN variable
              THEN Put(variable, "coordinates", FixedCoordinates)
              ELSE variable
    IN IF "_FillValue" \notin DOMAIN v1 THEN Put(v1, "_FillValue", NaNf) ELSE v1

\* Defaulted with _FillValue assigned whether or not the dict has one
DefaultedOverwritesFillValue(var_name, variable) ==
    LET v1 == IF var_name \notin CoordinateNames
              THEN Put(variable, "coordinates", FixedCoordinates)
              ELSE variable
    IN Put(v1, "_FillValue", NaNf)

\* steps 1 and 2: coordinates and _FillValue, assigned on the dict itself
Defaulted(var_name, variable) ==
    LET v1 == IF var_name \notin CoordinateNames
              THEN Put(variable, "coordinates", FixedCoordinates)
              ELSE variable
    IN IF "_FillValue" \notin DOMAIN v1 THEN Put(v1, "_FillValue", NaNf) ELSE v1

\* og1_variables.py: the URI that is looked up.  The value of
\* variable_uri.replace('https:', 'http:') is not assigned to anything, so
\* only the trailing '/' is added.  The argument is a non-empty str.
LookupUri(vocabulary) ==
    IF vocabulary[Len(vocabulary)] # "/" THEN Append(vocabulary, "/") ELSE vocabulary

\* the first related link containing 'P06', else the table's units_uri
RECURSIVE RelatedUnits(_, _, _)
RelatedUnits(related, i, units_uri) ==
    IF i > Len(related) THEN units_uri
    ELSE IF Contains(related[i]["@id"], "P06") THEN related[i]["@id"]
    ELSE RelatedUnits(related, i + 1, units_uri)

\* units resolution, shared by both variants: the exception it raises, or
\* NoCall when it runs through
UnitsLookup(concept, standard_name) ==
    IF ~HasColumn(df_p07, "units_uri") THEN Raise("KeyError")
    ELSE LET default == Loc0(df_p07, "cf_standard_name", standard_name, "units_uri")
             units_uri == IF "skos:related" \in DOMAIN concept
                          THEN RelatedUnits(AsList(concept["skos:related"]), 1, default)
                          ELSE default
         IN IF units_uri \notin DOMAIN p06 THEN Raise("KeyError")
            ELSE IF "skos:altLabel" \notin DOMAIN p06[units_uri] THEN Raise("KeyError")
            ELSE NoCall

\* og1_variables.py.  The result pairs the outcome of the call with the
\* variable dict as the call leaves it.
og1_variables_validate_variable(var_name, variable) ==
    LET v2 == Defaulted(var_name, variable) IN
    IF variable_mandatory_keys \ (DOMAIN v2) # {} THEN [ret |-> False, variable |-> v2]
    ELSE IF Len(v2["vocabulary"]) = 0 THEN [ret |-> Raise("IndexError"), variable |-> v2]
    ELSE LET variable_uri == LookupUri(v2["vocabulary"]) IN
    IF variable_uri \notin DOMAIN og1_p01_p02 THEN [ret |-> False, variable |-> v2]
    ELSE IF ~HasColumn(df_p07, "cf_standard_name")
         THEN [ret |-> Raise("KeyError"), variable |-> v2]
    ELSE IF v2["standard_name"] \notin ColumnValues(df_p07, "cf_standard_name")
         THEN [ret |-> False, variable |-> v2]
    ELSE LET concept == og1_p01_p02[variable_uri]
             v3 == IF "long_name" \in DOMAIN v2 THEN v2
                   ELSE Put(v2, "long_name", concept["skos:prefLabel"]["@value"])
             units == UnitsLookup(concept, v2["standard_name"])
         IN IF units.kind = "raise" THEN [ret |-> units, variable |-> v3]
            ELSE [ret |-> Return(v3), variable |-> v3]

\* validate.py: no normalisation of the URI, long_name from standard_name
validate_validate_variable(var_name, variable) ==
    LET v2 == Defaulted(var_name, variable) IN
    IF variable_mandatory_keys \ (DOMAIN v2) # {} THEN [ret |-> False, variable |-> v2]
    ELSE LET variable_uri == v2["vocabulary"] IN
    IF variable_uri \notin DOMAIN og1_p01_p02 THEN [ret |-> False, variable |-> v2]
    ELSE IF ~HasColumn(df_p07, "cf_standard_name")
         THEN [ret |-> Raise("KeyError"), variable |-> v2]
    ELSE IF v2["standard_name"] \notin ColumnValues(df_p07, "cf_standard_name")
         THEN [ret |-> False, variable |-> v2]
    ELSE LET v3 == IF "long_name" \in DOMAIN v2 THEN v2
                   ELSE Put(v2, "long_name", Replace(v2["standard_name"], "_", " "))
             concept == og1_p01_p02[variable_uri]
             units == UnitsLookup(concept, v2["standard_name"])
         IN IF units.kind = "raise" THEN [ret |-> units, variable |-> v3]
            ELSE [ret |-> Return(v3), variable |-> v3]

\* the validate_variable of the module that is run
validate_variable(variant, var_name, variable) ==
    IF variant = "og1_variables" THEN og1_variables_validate_variable(var_name, variable)
    ELSE validate_validate_variable(var_name, variable)

\* the object a call that returns evaluates to: the dict, or False
Value(r) == IF r.kind = "return" THEN r.value ELSE r

\* Truthy as `if validated is not None:`
TruthyNotNone(r) == r.kind # "none"

\* `if validated:` in the batch runners, for a call that returned
Truthy(r) == r.kind = "return" /\ DOMAIN r.value # {}

-----------------------------------------------------------------------------
(* Inputs *)

X == Str("x")
\* marks a key that the dict does not have
Absent == <<"(absent)">>

\* the dict holding the keys of `full` whose option is a value
Present(full) == [k \in {key \in DOMAIN full : full[key] # Absent} |-> full[k]]

\* sensor dicts a draft file can hold: any subset of the mandatory keys,
\* possibly an unexpected key, values right or wrong
SensorInputs ==
    {Present([long_name |-> ln, sensor_maker |-> mk, sensor_maker_vocabulary |-> mkv,
              sensor_model |-> md, sensor_model_vocabulary |-> mdv,
              sensor_type |-> ty, sensor_type_vocabulary |-> tyv,
              unexpected_key |-> un]) :
        ln \in {Absent, X, T1}, mk \in {Absent, X}, mkv \in {Absent, X, K1},
        md \in {Absent, X}, mdv \in {Absent, M1, M2, M3, M4, M5, M6, M7, M9},
        ty \in {Absent, X}, tyv \in {Absent, X, T1, T2}, un \in {Absent, X}}

\* variable names and dicts a draft file can hold
VarNames == {"TIME", "DEPTH", "TEMP"}
VariableInputs ==
    {Present(("standard_name" :> sn) @@ ("vocabulary" :> voc) @@ ("units" :> un)
             @@ ("coordinates" :> co) @@ ("_FillValue" :> fv) @@ ("long_name" :> ln)) :
        sn \in {Absent, SeaWaterTemperature, SeaWaterPressure, NoSuchName},
        voc \in {Absent, V1, HttpsUri("OG1", "TEMP"), BareUri("OG1", "TEMP"),
                 V2, V3, V4, V9, <<>>},
        un \in {Absent, Str("degC")},
        co \in {Absent, X, FixedCoordinates},
        fv \in {Absent, Str("-999")},
        ln \in {Absent, X}}

\* the drafts of the batch runs: a few dicts of each outcome
GoodSensor(uri) ==
    [long_name |-> X, sensor_maker |-> X, sensor_maker_vocabulary |-> X,
     sensor_model |-> X, sensor_model_vocabulary |-> uri,
     sensor_type |-> X, sensor_type_vocabulary |-> X]
BatchSensors ==
    {GoodSensor(M1), GoodSensor(M2), GoodSensor(M9), GoodSensor(M4),
     Put(GoodSensor(M2), "unexpected_key", X),
     Put(Put(GoodSensor(M1), "sensor_type_vocabulary", T1), "long_name", Str("SBE37")),
     [sensor_model_vocabulary |-> M2, long_name |-> X]}

GoodVariable(uri) ==
    [standard_name |-> SeaWaterTemperature, vocabulary |-> uri, units |-> Str("degC")]
BatchVariables ==
    {<<"TEMP", GoodVariable(V1)>>, <<"TEMP", GoodVariable(V9)>>,
     <<"TIME", GoodVariable(V2)>>, <<"TIME", [units |-> Str("s")]>>,
     <<"PRES", GoodVariable(V4)>>, <<"DEPTH", GoodVariable(BareUri("OG1", "TEMP"))>>}

\* lists of at most n elements of S
RECURSIVE SeqsUpTo(_, _)
SeqsUpTo(S, n) ==
    IF n = 0 THEN {<<>>}
    ELSE LET shorter == SeqsUpTo(S, n - 1)
         IN shorter \cup {Append(q, x) : q \in {t \in shorter : Len(t) = n - 1}, x \in S}

\* a YAML mapping has each key once
DistinctNames(file) ==
    \A i, j \in DOMAIN file : file[i][1] = file[j][1] => i = j

\* entries of a fetched graph: concepts with a definition as a record or as
\* plain text, a concept without a definition, and an entry that is no record
GraphEntries ==
    {Dict(("@id" :> Uri("P07", "A"))
            @@ ("skos:definition" :> Dict(Label("a")))
            @@ ("skos:prefLabel" :> ("@value" :> SeaWaterTemperature))
            @@ ("skos:related" :> List(<<Link(U1), Link(U2)>>))),
     Dict(("@id" :> Uri("P07", "B"))
            @@ ("skos:definition" :> Text(Str("b")))
            @@ ("skos:related" :> Dict(Link(N1)))),
     Dict(("@id" :> Uri("P07", "C"))
            @@ ("skos:prefLabel" :> ("@value" :> SeaWaterPressure))),
     Text(Str("not a record"))}
Graphs == {<<>>} \cup {Append(g, Dict(Descriptor("P07"))) : g \in SeqsUpTo(GraphEntries, MaxGraph)}

-----------------------------------------------------------------------------
(* State *)

VARIABLES
    entry,               \* the function the run started in
    variant,             \* the module run: "og1_variables" or "validate"
    pc,                  \* "run", "done", or "aborted" by an exception
    calls,               \* calls of the reconciler made on the argument so far
    sensor,              \* the sensor dict handed to validate_sensor
    var_name,            \* the name handed to validate_variable
    variable,            \* the variable dict handed to validate_variable
    ret,                 \* outcome of the last call
    draft_sensors,       \* voto_sensors.yaml as loaded, in file order
    draft_files,         \* the two variable draft files, as lists of <<name, dict>>
    file,                \* index of the draft file being read
    idx,                 \* index of the next draft of the loop
    validated_sensors,   \* sensor_model -> validated sensor
    validated_variables, \* var_name -> validated variable
    written,             \* what yaml.safe_dump has written, NoCall before
    graph,               \* the fetched '@graph' of table_from_collection
    df,                  \* outcome of table_from_collection
    succeeded            \* the dicts the sensors loop got back as successes, in order

vars == <<entry, variant, pc, calls, sensor, var_name, variable, ret, draft_sensors,
          draft_files, file, idx, validated_sensors, validated_variables, written,
          graph, df, succeeded>>

InitSensor ==
    /\ entry = "validate_sensor" /\ pc = "run"
    /\ sensor \in SensorInputs
    /\ variant \in {"og1_sensors", "validate"}
    /\ calls = 0 /\ ret = NoCall /\ var_name = "" /\ variable = EmptyDict
    /\ draft_sensors = <<>> /\ draft_files = <<<<>>, <<>>>> /\ file = 1 /\ idx = 1
    /\ validated_sensors = EmptyDict /\ validated_variables = EmptyDict
    /\ written = NoCall /\ graph = <<>> /\ df = NoCall /\ succeeded = <<>>

InitVariable ==
    /\ entry = "validate_variable" /\ pc = "run"
    /\ var_name \in VarNames
    /\ variable \in VariableInputs
    /\ variant \in {"og1_variables", "validate"}
    /\ calls = 0 /\ ret = NoCall /\ sensor = EmptyDict
    /\ draft_sensors = <<>> /\ draft_files = <<<<>>, <<>>>> /\ file = 1 /\ idx = 1
    /\ validated_sensors = EmptyDict /\ validated_variables = EmptyDict
    /\ written = NoCall /\ graph = <<>> /\ df = NoCall /\ succeeded = <<>>

InitSensorsFromYaml ==
    /\ entry = "validate_sensors_from_yaml" /\ pc = "run"
    /\ draft_sensors \in SeqsUpTo(BatchSensors, MaxDrafts)
    /\ variant \in {"og1_sensors", "validate"}
    /\ calls = 0 /\ ret = NoCall /\ sensor = EmptyDict /\ var_name = "" /\ variable = EmptyDict
    /\ draft_files = <<<<>>, <<>>>> /\ file = 1 /\ idx = 1
    /\ validated_sensors = EmptyDict /\ validated_variables = EmptyDict
    /\ written = NoCall /\ graph = <<>> /\ df = NoCall /\ succeeded = <<>>

InitVariablesFromYaml ==
    /\ entry = "validate_variables_from_yaml" /\ pc = "run"
    /\ draft_files \in {<<f1, f2>> : f1 \in {f \in SeqsUpTo(BatchVariables, MaxVars) : DistinctNames(f)},
                                    f2 \in {f \in SeqsUpTo(BatchVariables, MaxVars) : DistinctNames(f)}}
    /\ variant \in {"og1_variables", "validate"}
    /\ calls = 0 /\ ret = NoCall /\ sensor = EmptyDict /\ var_name = "" /\ variable = EmptyDict
    /\ draft_sensors = <<>> /\ file = 1 /\ idx = 1
    /\ validated_sensors = EmptyDict /\ validated_variables = EmptyDict
    /\ written = NoCall /\ graph = <<>> /\ df = NoCall /\ succeeded = <<>>

InitTable ==
    /\ entry = "table_from_collection" /\ pc = "run"
    /\ graph \in Graphs
    /\ variant = "nvs"
    /\ calls = 0 /\ ret = NoCall /\ sensor = EmptyDict /\ var_name = "" /\ variable = EmptyDict
    /\ draft_sensors = <<>> /\ draft_files = <<<<>>, <<>>>> /\ file = 1 /\ idx = 1
    /\ validated_sensors = EmptyDict /\ validated_variables = EmptyDict
    /\ written = NoCall /\ df = NoCall /\ succeeded = <<>>

Init == InitSensor \/ InitVariable \/ InitSensorsFromYaml \/ InitVariablesFromYaml \/ InitTable

-----------------------------------------------------------------------------
(* Actions *)

\* validate_sensor(sensor), applied to the same dict up to MaxCalls times
CallValidateSensor ==
    /\ entry = "validate_sensor" /\ pc = "run" /\ calls < MaxCalls
    /\ ret' = validate_sensor(sensor)
    /\ sensor' \in SensorAfter(sensor)
    /\ calls' = calls + 1
    /\ pc' = IF ret'.kind = "raise" THEN "aborted" ELSE "run"
    /\ UNCHANGED <<entry, variant, var_name, variable, draft_sensors, draft_files, file, idx,
                   validated_sensors, validated_variables, written, graph, df,
                   succeeded>>

\* validate_variable(var_name, variable), likewise
CallValidateVariable ==
    /\ entry = "validate_variable" /\ pc = "run" /\ calls < MaxCalls
    /\ LET r == validate_variable(variant, var_name, variable)
       IN /\ ret' = r.ret
          /\ variable' = r.variable
    /\ calls' = calls + 1
    /\ pc' = IF ret'.kind = "raise" THEN "aborted" ELSE "run"
    /\ UNCHANGED <<entry, variant, var_name, sensor, draft_sensors, draft_files, file, idx,
                   validated_sensors, validated_variables, written, graph, df,
                   succeeded>>

\* validated_sensors[validated['sensor_model']] = validated, with the
\* earlier entry of the same model kept instead of replaced
StoredFirstWins(validated_out, validated) ==
    IF validated["sensor_model"] \in DOMAIN validated_out THEN validated_out
    ELSE Put(validated_out, validated["sensor_model"], validated)

\* validated_sensors[validated['sensor_model']] = validated
Stored(validated_out, validated) ==
    Put(validated_out, validated["sensor_model"], validated)

\* one turn of the loop of validate_sensors_from_yaml; the key of the output
\* entry is validated['sensor_model'], which raises when the dict lacks it
SensorsLoop ==
    /\ entry = "validate_sensors_from_yaml" /\ pc = "run" /\ idx <= Len(draft_sensors)
    /\ LET validated == validate_sensor(draft_sensors[idx])
           stores == validated.kind # "raise" /\ Truthy(validated)
           keyed == "sensor_model" \in DOMAIN Value(validated)
       IN /\ ret' = IF stores /\ ~keyed THEN Raise("KeyError") ELSE validated
          /\ \E after \in SensorAfter(draft_sensors[idx]) :
                /\ sensor' = after
                /\ draft_sensors' = [draft_sensors EXCEPT ![idx] = after]
          /\ validated_sensors' =
                IF stores /\ keyed
                THEN Stored(validated_sensors, Value(validated))
                ELSE validated_sensors
          /\ succeeded' = IF stores THEN Append(succeeded, Value(validated)) ELSE succeeded
    /\ calls' = calls + 1
    /\ idx' = idx + 1
    /\ pc' = IF ret'.kind = "raise" THEN "aborted" ELSE "run"
    /\ UNCHANGED <<entry, variant, var_name, variable, draft_files, file,
                   validated_variables, written, graph, df>>

\* yaml.safe_dump(validated_sensors, f) after the loop
SensorsDump ==
    /\ entry = "validate_sensors_from_yaml" /\ pc = "run" /\ idx > Len(draft_sensors)
    /\ written' = Return(validated_sensors)
    /\ pc' = "done"
    /\ UNCHANGED <<entry, variant, calls, sensor, var_name, variable, ret, draft_sensors,
                   draft_files, file, idx, validated_sensors, validated_variables, graph, df,
                   succeeded>>

\* one turn of the inner loop of validate_variables_from_yaml
VariablesLoop ==
    /\ entry = "validate_variables_from_yaml" /\ pc = "run"
    /\ file <= Len(draft_files) /\ idx <= Len(draft_files[file])
    /\ LET name == draft_files[file][idx][1]
           r == validate_variable(variant, name, draft_files[file][idx][2])
       IN /\ ret' = r.ret
          /\ var_name' = name
          /\ variable' = r.variable
          /\ draft_files' = [draft_files EXCEPT ![file][idx] = <<name, r.variable>>]
          /\ validated_variables' =
                IF r.ret.kind # "raise" /\ Truthy(r.ret)
                THEN Put(validated_variables, name, Value(r.ret))
                ELSE validated_variables
    /\ calls' = calls + 1
    /\ idx' = idx + 1
    /\ pc' = IF ret'.kind = "raise" THEN "aborted" ELSE "run"
    /\ UNCHANGED <<entry, variant, sensor, draft_sensors, file, validated_sensors,
                   written, graph, df,
                   succeeded>>

\* the outer loop moves on to the next draft file
VariablesNextFile ==
    /\ entry = "validate_variables_from_yaml" /\ pc = "run"
    /\ file <= Len(draft_files) /\ idx > Len(draft_files[file])
    /\ file' = file + 1
    /\ idx' = 1
    /\ UNCHANGED <<entry, variant, pc, calls, sensor, var_name, variable, ret, draft_sensors,
                   draft_files, validated_sensors, validated_variables, written, graph, df,
                   succeeded>>

\* yaml.safe_dump(validated_variables, f) after both files
VariablesDump ==
    /\ entry = "validate_variables_from_yaml" /\ pc = "run" /\ file > Len(draft_files)
    /\ written' = Return(validated_variables)
    /\ pc' = "done"
    /\ UNCHANGED <<entry, variant, calls, sensor, var_name, variable, ret, draft_sensors,
                   draft_files, file, idx, validated_sensors, validated_variables, graph, df,
                   succeeded>>

\* df = table_from_collection(collection)
CallTableFromCollection ==
    /\ entry = "table_from_collection" /\ pc = "run"
    /\ df' = table_from_collection(graph)
    /\ pc' = IF df'.kind = "raise" THEN "aborted" ELSE "done"
    /\ UNCHANGED <<entry, variant, calls, sensor, var_name, variable, ret, draft_sensors,
                   draft_files, file, idx, validated_sensors, validated_variables, written,
                   graph,
                   succeeded>>

Next ==
    \/ CallValidateSensor
    \/ CallValidateVariable
    \/ SensorsLoop
    \/ SensorsDump
    \/ VariablesLoop
    \/ VariablesNextFile
    \/ VariablesDump
    \/ CallTableFromCollection

Spec == Init /\ [][Next]_vars

-----------------------------------------------------------------------------
(* Claims *)

\* a call of the reconciler on the argument is being made in this step
SensorCall == entry = "validate_sensor" /\ calls' = calls + 1
VariableCall == entry = "validate_variable" /\ calls' = calls + 1

\* C1: validate_sensor returns the failure signal for every sensor dict
\* whose key set is not exactly the mandatory set (an extra key, or a
\* mandatory key removed).
C1_KeySetExact ==
    (entry = "validate_sensor" /\ calls >= 1 /\ DOMAIN sensor # mandatory_keys)
        => ret = False

\* the links of a model concept that contain a marker, in source order
LinksWith(data, field, marker) ==
    IF field \notin DOMAIN data THEN <<>>
    ELSE SelectSeq(AsList(data[field]), LAMBDA l : Contains(l["@id"], marker))

\* C2: for every sensor dict with exactly the mandatory keys and a
\* sensor_model_vocabulary held by the L22 store, validate_sensor returns a
\* dict whose sensor_model and long_name are the concept's preferred label
\* and whose sensor_model_vocabulary is the concept's URI, whatever links the
\* concept has; with one type link and one maker link the type and maker
\* fields are the label and URI of the linked concepts.
C2_ModelFieldsDerived ==
    (/\ entry = "validate_sensor" /\ calls >= 1
     /\ DOMAIN sensor = mandatory_keys
     /\ sensor["sensor_model_vocabulary"] \in DOMAIN l22)
        => LET data == l22[sensor["sensor_model_vocabulary"]]
               types == LinksWith(data, "skos:broader", "L05")
               makers == LinksWith(data, "skos:related", "L35")
           IN /\ ret.kind = "return"
              /\ ret.value["sensor_model"] = data["skos:prefLabel"]["@value"]
              /\ ret.value["long_name"] = data["skos:prefLabel"]["@value"]
              /\ ret.value["sensor_model_vocabulary"] = data["@id"]
              /\ (Len(types) = 1 /\ Len(makers) = 1 /\ types[1]["@id"] \in DOMAIN l05
                    /\ makers[1]["@id"] \in DOMAIN l35)
                    => /\ ret.value["sensor_type_vocabulary"] = types[1]["@id"]
                       /\ ret.value["sensor_type"] =
                              l05[types[1]["@id"]]["skos:prefLabel"]["@value"]
                       /\ ret.value["sensor_maker_vocabulary"] = makers[1]["@id"]
                       /\ ret.value["sensor_maker"] =
                              l35[makers[1]["@id"]]["skos:prefLabel"]["@value"]

\* C3: no exception leaves a reconciler: every call of validate_sensor or
\* validate_variable ends in a returned dict or in False, and a batch run is
\* never ended by an exception.
C3_NoErrorEscapes ==
    (entry # "table_from_collection") => (ret.kind # "raise" /\ pc # "aborted")

\* C5: a second call of a reconciler on the dict a first call returned
\* returns that same dict again.
C5_Idempotent ==
    [][((SensorCall \/ VariableCall) /\ ret.kind = "return")
          => (ret'.kind = "return" /\ ret'.value = ret.value)]_vars

\* a turn of a batch loop is being made in this step
SensorsTurn == entry = "validate_sensors_from_yaml" /\ calls' = calls + 1
VariablesTurn == entry = "validate_variables_from_yaml" /\ calls' = calls + 1

\* C4: at every point of a batch run the output set changes only by taking
\* in, under its key, the dict of a call that returned success, and a draft
\* whose reconciliation failed is not in the output under its key; what is
\* written is that output set.
C4_OnlySuccessesKept ==
    /\ [][/\ \A k \in DOMAIN validated_variables' :
                (k \notin DOMAIN validated_variables
                    \/ validated_variables'[k] # validated_variables[k])
                => (VariablesTurn /\ ret'.kind = "return" /\ k = var_name'
                      /\ validated_variables'[k] = ret'.value)
          /\ \A k \in DOMAIN validated_sensors' :
                (k \notin DOMAIN validated_sensors
                    \/ validated_sensors'[k] # validated_sensors[k])
                => (SensorsTurn /\ ret'.kind = "return"
                      /\ k = ret'.value["sensor_model"]
                      /\ validated_sensors'[k] = ret'.value)
          /\ DOMAIN validated_variables \subseteq DOMAIN validated_variables'
          /\ DOMAIN validated_sensors \subseteq DOMAIN validated_sensors']_vars
    /\ [](/\ (entry = "validate_variables_from_yaml" /\ ret.kind \in {"False", "raise"})
                => ~(var_name \in DOMAIN validated_variables
                       /\ validated_variables[var_name] = variable)
          /\ (entry = "validate_sensors_from_yaml" /\ ret.kind \in {"False", "raise"})
                => (sensor \notin Values(validated_sensors))
          /\ (written.kind = "return" /\ entry = "validate_variables_from_yaml")
                => written.value = validated_variables
          /\ (written.kind = "return" /\ entry = "validate_sensors_from_yaml")
                => written.value = validated_sensors)

\* a failed draft has been processed while the output set holds an entry
\* under the same name, taken from the other draft file
C4_Witness ==
    /\ entry = "validate_variables_from_yaml" /\ ret = False
    /\ var_name \in DOMAIN validated_variables

\* the normal form of a vocabulary URI: 'https:' rewritten to 'http:' and a
\* trailing '/' ensured
NormalForm(uri) ==
    LET plain == Replace(uri, "https:", "http:")
    IN IF Len(plain) = 0 \/ plain[Len(plain)] # "/" THEN Append(plain, "/") ELSE plain

\* C6: validate_variable of og1_variables.py looks the vocabulary URI up in
\* its normal form ('https:' rewritten to 'http:', one trailing '/'), so
\* a variable with all mandatory keys and a known standard name whose
\* vocabulary is the https form, or the form without trailing '/', of a URI
\* of the merged store is not rejected.
C6_LookupNormalised ==
    (/\ entry = "validate_variable" /\ variant = "og1_variables" /\ calls >= 1
     /\ variable_mandatory_keys \subseteq DOMAIN variable
     /\ NormalForm(variable["vocabulary"]) \in DOMAIN og1_p01_p02
     /\ variable["standard_name"] \in ColumnValues(df_p07, "cf_standard_name"))
        => ret # False

\* C7: table_from_collection builds the table whatever the graph entries
\* are: an entry that is no record and a concept without definition give no
\* row, every other concept gives one.
C7_ProjectionTotal ==
    (entry = "table_from_collection" /\ pc # "run" /\ Len(graph) >= 1)
        => /\ df.kind = "return"
           /\ Len(df.value) =
                Cardinality({i \in 1..(Len(graph) - 1) :
                                /\ graph[i].type = "dict"
                                /\ "skos:definition" \in DOMAIN graph[i].v})

\* the name and dict a call of validate_variable made in this step receives
VariableStep ==
    /\ entry \in {"validate_variable", "validate_variables_from_yaml"}
    /\ calls' = calls + 1
VariableIn ==
    IF entry = "validate_variable" THEN <<var_name, variable>> ELSE draft_files[file][idx]
\* the dict as the call leaves it, and the dict it returns if it returns one
VariableOut == {variable'} \cup (IF ret'.kind = "return" THEN {ret'.value} ELSE {})

\* C8: after validate_variable, the coordinates of a variable whose name is
\* not TIME, LONGITUDE, LATITUDE or DEPTH is the fixed string, whatever the
\* input held; for the four coordinate names the field is as in the input
\* (absent stays absent).
C8_CoordinatesForced ==
    [][VariableStep =>
        \A out \in VariableOut :
            IF VariableIn[1] \notin CoordinateNames
            THEN "coordinates" \in DOMAIN out /\ out["coordinates"] = FixedCoordinates
            ELSE IF "coordinates" \in DOMAIN VariableIn[2]
                 THEN "coordinates" \in DOMAIN out
                        /\ out["coordinates"] = VariableIn[2]["coordinates"]
                 ELSE "coordinates" \notin DOMAIN out]_vars

\* a data variable has been returned with the fixed coordinates
C8_Witness ==
    /\ entry = "validate_variable" /\ ret.kind = "return"
    /\ var_name \notin CoordinateNames
    /\ ret.value["coordinates"] = FixedCoordinates

\* C9: after validate_variable, a variable that had no _FillValue has
\* _FillValue 'NaNf', and one that had a _FillValue keeps it.
C9_FillValueDefault ==
    [][VariableStep =>
        \A out \in VariableOut :
            /\ "_FillValue" \in DOMAIN out
            /\ out["_FillValue"] = IF "_FillValue" \in DOMAIN VariableIn[2]
                                   THEN VariableIn[2]["_FillValue"] ELSE NaNf]_vars

\* a variable has been returned with the NaN sentinel as _FillValue
C9_Witness ==
    /\ entry = "validate_variable" /\ ret.kind = "return"
    /\ ret.value["_FillValue"] = NaNf

\* the sensor-type links of the concept a returned sensor dict resolved to
TypeLinks(rec) == LinksWith(l22[rec["sensor_model_vocabulary"]], "skos:broader", "L05")
TypeLabel(link) == l05[link["@id"]]["skos:prefLabel"]["@value"]
\* the type fields of rec are those of the link
TypeFrom(rec, link) ==
    /\ "sensor_type_vocabulary" \in DOMAIN rec => rec["sensor_type_vocabulary"] = link["@id"]
    /\ "sensor_type" \in DOMAIN rec => rec["sensor_type"] = TypeLabel(link)

\* C10 as stated: with several broader links containing 'L05', the returned
\* sensor_type_vocabulary / sensor_type are those of the first such link in
\* source order, whatever the input dict holds.
C10_FirstTypeLink ==
    (entry = "validate_sensor" /\ ret.kind = "return" /\ Len(TypeLinks(ret.value)) >= 2)
        => TypeFrom(ret.value, TypeLinks(ret.value)[1])

\* C10 as amended: with several broader links containing 'L05', the returned
\* sensor_type_vocabulary / sensor_type are those of the first such link
\* whose URI is among the values of the input dict, and those of the last
\* such link when none is.
C10_TypeLinkByInput ==
    [][(SensorCall /\ ret'.kind = "return" /\ Len(TypeLinks(ret'.value)) >= 2) =>
        LET types == TypeLinks(ret'.value)
            declared == {i \in DOMAIN types : types[i]["@id"] \in Values(sensor)}
            chosen == IF declared = {} THEN Len(types)
                      ELSE CHOOSE i \in declared : \A j \in declared : i <= j
        IN TypeFrom(ret'.value, types[chosen])]_vars

\* a sensor dict has been returned with the type of a link that is not the
\* first type link of its concept
C10_Witness ==
    /\ entry = "validate_sensor" /\ ret.kind = "return"
    /\ Len(TypeLinks(ret.value)) >= 2
    /\ "sensor_type_vocabulary" \in DOMAIN ret.value
    /\ ret.value["sensor_type_vocabulary"] # TypeLinks(ret.value)[1]["@id"]

\* the model names of the dicts the sensors loop got back as successes
SucceededModels == {succeeded[i]["sensor_model"] : i \in DOMAIN succeeded}

\* C11: in validate_sensors_from_yaml the output set is keyed by the
\* resolved sensor_model: its keys are the distinct model names of the
\* successfully reconciled drafts, each entry is the last success of its
\* model, and entries written <= successes <= drafts read.
C11_KeyedByModel ==
    (entry = "validate_sensors_from_yaml" /\ pc # "aborted") =>
        /\ DOMAIN validated_sensors = SucceededModels
        /\ Cardinality(DOMAIN validated_sensors) = Cardinality(SucceededModels)
        /\ \A i \in DOMAIN succeeded :
              (\A j \in DOMAIN succeeded :
                  succeeded[j]["sensor_model"] = succeeded[i]["sensor_model"] => j <= i)
              => validated_sensors[succeeded[i]["sensor_model"]] = succeeded[i]
        /\ Cardinality(DOMAIN validated_sensors) <= Len(succeeded)
        /\ Len(succeeded) <= idx - 1
        /\ idx - 1 <= Len(draft_sensors)
        /\ pc = "done" =>
              /\ idx - 1 = Len(draft_sensors)
              /\ written.value = validated_sensors
              /\ Cardinality(DOMAIN written.value) <= Len(succeeded)

\* a run has written one entry for two successes of the same model that
\* differ, the entry being the later one
C11_Witness ==
    /\ entry = "validate_sensors_from_yaml" /\ pc = "done"
    /\ Len(succeeded) = 2
    /\ succeeded[1] # succeeded[2]
    /\ Cardinality(DOMAIN written.value) = 1
    /\ written.value[succeeded[2]["sensor_model"]] = succeeded[2]

=============================================================================
